---------------------------- MODULE Spec2Model ----------------------------
(***************************************************************************)
(* Model of oscillators/beaded_string.py: the BeadedString object, its     *)
(* construction (__init__ and the steps of _prepare) and the _update       *)
(* callback of the animation.                                              *)
(*                                                                         *)
(* Numbers.  Python floats are modelled by exact or fixed-point values:    *)
(*   - x-coordinates are exact rationals <<num, den>>, den > 0, reduced;   *)
(*   - angles are exact rational multiples of pi, <<a, b>> = (a/b)*pi;     *)
(*   - eigenvalues, frequencies and sine/cosine values are fixed-point     *)
(*     integers in units of 1/Scale; a displacement y is in units of       *)
(*     1/Scale^2 (amplitude * sin * cos, no rescaling);                    *)
(*   - the product omega*t*speed (a degree measure) is kept in units of    *)
(*     1/DegUnits degree.                                                  *)
(* Python 3 semantics are assumed (1 / 2 is 0.5, line 136).                *)
(***************************************************************************)
EXTENDS Integers, Sequences, FiniteSets

\* ---------------------------------------------------------------- bounds
MaxN == 3           \* number_of_masses ranges over -2..MaxN
MaxFrames == 2      \* number_of_frames ranges over 0..MaxFrames
Scale == 100        \* fixed-point unit of the modelled floats: 1/Scale
DegUnits == 10      \* fixed-point unit of degree measures: 1/DegUnits

\* ------------------------------------------------------------- constants
BOUNDARY_FIXED == 0
BOUNDARY_FREE == 1
BOUNDARY_MIXED == 2

\* The three boundary constants and one value (3) that is none of them.
BoundaryValues == {BOUNDARY_FIXED, BOUNDARY_FREE, BOUNDARY_MIXED, 3}
\* The (longitude, amplitude, speed) settings the constructor is called with.
Settings == {<<1, 1, 1>>, <<2, 2, 40>>}

\* The value np.sqrt gives for a negative operand, and what arithmetic on
\* it gives.
NaN == -2000000000

VARIABLES
    pc,                  \* position in __init__/_prepare, "ready", "failed"
    error,               \* the exception that ended construction, or "none"
    number_of_masses,    \* self._number_of_masses
    normal_modes,        \* self._normal_modes, a sequence of integers
    boundary_condition,  \* self._boundary_condition
    longitude,           \* self._longitude
    amplitude,           \* self._amplitude
    number_of_frames,    \* self._number_of_frames
    speed,               \* self._speed
    separation,          \* self._separation, a rational
    matrix,              \* self._tridiagonal_matrix after line 47
    omega_squared,       \* self._omega_squared after line 48
    line,                \* the data of self._beaded_string: [x, y]
    frames,              \* self._frames
    omegaReads,          \* the <<p, entry>> pairs _omega has read
    sqrtOperands,        \* the operands _omega has handed to np.sqrt
    lastFrame            \* argument of the last _update call, or -1

vars == <<pc, error, number_of_masses, normal_modes, boundary_condition,
          longitude, amplitude, number_of_frames, speed, separation, matrix,
          omega_squared, line, frames, omegaReads, sqrtOperands, lastFrame>>

\* ------------------------------------------------------------- rationals
Abs(i) == IF i < 0 THEN -i ELSE i

RECURSIVE Gcd(_, _)
Gcd(a, b) == IF b = 0 THEN a ELSE Gcd(b, a % b)

\* <<n, d>> with d # 0, reduced and with a positive denominator.
Rat(n, d) ==
    LET g == Gcd(Abs(n), Abs(d))
        s == IF d < 0 THEN -1 ELSE 1
    IN  <<(s * n) \div g, (s * d) \div g>>

RatAdd(q, r) == Rat(q[1] * r[2] + r[1] * q[2], q[2] * r[2])
RatMul(q, r) == Rat(q[1] * r[1], q[2] * r[2])
RatInt(i) == <<i, 1>>

\* ------------------------------------------------------- numpy functions
\* np.eye(N, N, k): ones where column - row = k.
Eye(N, k) == [i \in 1..N, j \in 1..N |-> IF j - i = k THEN 1 ELSE 0]

\* np.sin of the angle (a/b)*pi, b > 0, in units of 1/Scale.  On one half
\* turn the value is Bhaskara's rational approximation
\* 16 r (b - r) / (5 b^2 - 4 r (b - r)), exact at 0, pi/6, pi/2, 5pi/6, pi.
SinHalfTurn(r, b) == (Scale * 16 * r * (b - r)) \div (5 * b * b - 4 * r * (b - r))

Sin(angle) ==
    LET b == angle[2]
        r == angle[1] % (2 * b)
    IN  IF r <= b THEN SinHalfTurn(r, b) ELSE -SinHalfTurn(r - b, b)

\* np.cos(x) = sin(x + pi/2).
Cos(angle) == Sin(RatAdd(angle, <<1, 2>>))

\* np.radians of a degree measure given in units of 1/DegUnits degree.
Radians(deg) == Rat(deg, 180 * DegUnits)

\* np.sqrt of v/Scale in units of 1/Scale, rounded down; nan when v < 0.
RECURSIVE SqrtSearch(_, _, _)
SqrtSearch(v, lo, hi) ==
    IF lo >= hi THEN lo
    ELSE LET mid == (lo + hi + 1) \div 2
         IN  IF mid * mid <= v THEN SqrtSearch(v, mid, hi)
             ELSE SqrtSearch(v, lo, mid - 1)

Sqrt(v) == IF v < 0 THEN NaN ELSE SqrtSearch(v * Scale, 0, v + Scale)

\* np.linalg.eig on a symmetric tridiagonal matrix A of order N: the
\* eigenvalues are the roots of det(A - x I).  For x = m/Scale the leading
\* principal minors of Scale*(A - x I) form a Sturm sequence; the number of
\* sign changes along it is the number of eigenvalues <= x (a zero minor
\* takes the sign opposite to its predecessor's).
RECURSIVE Minors(_, _, _, _)
Minors(A, N, m, seq) ==
    LET i == Len(seq)
    IN  IF i > N THEN seq
        ELSE LET d1 == seq[i]
                 d2 == IF i >= 2
                       THEN A[i, i - 1] * A[i - 1, i] * Scale * Scale * seq[i - 1]
                       ELSE 0
             IN  Minors(A, N, m, Append(seq, (A[i, i] * Scale - m) * d1 - d2))

RECURSIVE SignChanges(_, _, _)
SignChanges(seq, i, prev) ==
    IF i > Len(seq) THEN 0
    ELSE LET sgn == IF seq[i] > 0 THEN 1 ELSE IF seq[i] < 0 THEN -1 ELSE -prev
         IN  (IF sgn # prev THEN 1 ELSE 0) + SignChanges(seq, i + 1, sgn)

CountLE(A, N, m) == SignChanges(Minors(A, N, m, <<1>>), 2, 1)

\* Gershgorin's bounds on the eigenvalues, in units of 1/Scale.
RECURSIVE RowOffSum(_, _, _, _)
RowOffSum(A, N, i, j) ==
    IF j > N THEN 0
    ELSE (IF j = i THEN 0 ELSE Abs(A[i, j])) + RowOffSum(A, N, i, j + 1)

SetMin(S) == CHOOSE x \in S : \A y \in S : x <= y
SetMax(S) == CHOOSE x \in S : \A y \in S : x >= y
EigLow(A, N) == Scale * SetMin({A[i, i] - RowOffSum(A, N, i, 1) : i \in 1..N})
EigHigh(A, N) == Scale * SetMax({A[i, i] + RowOffSum(A, N, i, 1) : i \in 1..N})

\* The k-th smallest eigenvalue, rounded up to a multiple of 1/Scale: the
\* least m with at least k eigenvalues <= m/Scale.
RECURSIVE EigSearch(_, _, _, _, _)
EigSearch(A, N, k, lo, hi) ==
    IF lo >= hi THEN lo
    ELSE LET mid == (lo + hi) \div 2
         IN  IF CountLE(A, N, mid) >= k THEN EigSearch(A, N, k, lo, mid)
             ELSE EigSearch(A, N, k, mid + 1, hi)

Eigenvalue(A, N, k) == EigSearch(A, N, k, EigLow(A, N), EigHigh(A, N))

\* LAPACK returns the eigenvalues in no guaranteed order: any rotation of
\* the descending order is a possible result array.
EigOutputs(A, N) ==
    IF N = 0 THEN {<<>>}
    ELSE LET desc == [k \in 1..N |-> Eigenvalue(A, N, N + 1 - k)]
         IN  {[k \in 1..N |-> desc[((k - 1 + r) % N) + 1]] : r \in 0..(N - 1)}

\* ndarray.sort(): ascending insertion sort.
RECURSIVE InsertSorted(_, _)
InsertSorted(s, v) ==
    IF s = <<>> THEN <<v>>
    ELSE IF v <= Head(s) THEN <<v>> \o s
    ELSE <<Head(s)>> \o InsertSorted(Tail(s), v)

RECURSIVE Sort(_)
Sort(s) == IF s = <<>> THEN <<>> ELSE InsertSorted(Sort(Tail(s)), Head(s))

\* A sum with no start value: nothing to return for an empty list.
RECURSIVE SumNoStart(_)
SumNoStart(s) ==
    IF s = <<>> THEN NaN
    ELSE IF Len(s) = 1 THEN Head(s)
    ELSE LET rest == SumNoStart(Tail(s))
         IN  IF Head(s) = NaN \/ rest = NaN THEN NaN ELSE Head(s) + rest

\* sum(list): Python's left-to-right sum starting from 0; nan propagates.
RECURSIVE Sum(_)
Sum(s) ==
    IF s = <<>> THEN 0
    ELSE LET rest == Sum(Tail(s))
         IN  IF Head(s) = NaN \/ rest = NaN THEN NaN ELSE Head(s) + rest

\* ------------------------------------------------------------ the object
\* An attribute that has not been assigned yet.
None == "None"

\* The argument lists the constructor is called with.
ModeValues == (-1)..(MaxN + 1)

RECURSIVE Ascending(_)
Ascending(s) == Len(s) < 2 \/ (s[1] < s[2] /\ Ascending(Tail(s)))

\* No mode, one mode, or two modes in ascending order.
ModeLists ==
    UNION {{s \in [1..k -> ModeValues] : Ascending(s)} : k \in 0..2}

\* A coupling matrix that follows the boundary condition: a free end
\* couples its mass to one neighbour only.
TridiagonalMatrixBoundary(N) ==
    [i \in 1..N, j \in 1..N |->
        IF i = j
        THEN IF boundary_condition = BOUNDARY_FREE /\ (i = 1 \/ i = N) THEN 1 ELSE 2
        ELSE IF j - i = 1 \/ i - j = 1 THEN -1 ELSE 0]

\* _tridiagonal_matrix (lines 53-60); `A[A == 0.] = 0.` only replaces a
\* negative zero by zero, which integers do not have.
TridiagonalMatrix(N) ==
    LET low == -1
        mid == 2
        upp == -1
    IN  [i \in 1..N, j \in 1..N |->
            Eye(N, -1)[i, j] * low + Eye(N, 0)[i, j] * mid + Eye(N, 1)[i, j] * upp]

\* Coordinates that start one separation to the right of the left wall.
BeadsCoordinatesShifted ==
    LET count == IF number_of_masses + 2 > 0 THEN number_of_masses + 2 ELSE 0
    IN  [x |-> [i \in 1..count |->
                   RatAdd(Rat(-longitude, 2), RatMul(RatInt(i), separation))],
         y |-> [i \in 1..count |-> 0]]

\* _beads_coordinates (lines 79-83): positions 1..N+2 hold n = 0..N+1.
BeadsCoordinates ==
    LET count == IF number_of_masses + 2 > 0 THEN number_of_masses + 2 ELSE 0
    IN  [x |-> [i \in 1..count |->
                   RatAdd(Rat(-longitude, 2), RatMul(RatInt(i - 1), separation))],
         y |-> [i \in 1..count |-> 0]]

\* Python's self._omega_squared[p - 1]: the 1-based position of the entry
\* read, a negative index counting from the end; 0 stands for IndexError.
OmegaEntry(p) ==
    LET len == Len(omega_squared)
        idx == p - 1
    IN  IF 0 <= idx /\ idx < len THEN idx + 1
        ELSE IF -len <= idx /\ idx < 0 THEN len + idx + 1
        ELSE 0

\* _omega (lines 125-126), for a p whose entry exists.
Omega(p) == Sqrt(omega_squared[OmegaEntry(p)])

\* The argument branching on the phase offset's groups ({Fixed, Mixed}).
NormalModeSwapped(p, n) ==
    IF boundary_condition = BOUNDARY_FIXED \/ boundary_condition = BOUNDARY_MIXED
    THEN Rat(p * n, number_of_masses + 1)
    ELSE LET q == p - 1
         IN  RatMul(RatMul(RatAdd(RatInt(q), <<1, 2>>), RatInt(n)),
                    Rat(1, number_of_masses + 1))

\* _normal_mode_p_for_mass_n (lines 128-136), as a multiple of pi.
NormalModePForMassN(p, n) ==
    IF boundary_condition = BOUNDARY_FIXED \/ boundary_condition = BOUNDARY_FREE
    THEN Rat(p * n, number_of_masses + 1)
    ELSE LET q == p - 1
         IN  RatMul(RatMul(RatAdd(RatInt(q), <<1, 2>>), RatInt(n)),
                    Rat(1, number_of_masses + 1))

\* The two phase offsets exchanged.
PhiSwapped ==
    IF boundary_condition = BOUNDARY_FIXED \/ boundary_condition = BOUNDARY_MIXED
    THEN <<1, 2>>
    ELSE <<0, 1>>

\* phi of _position_for_mass_n_at_time_t (lines 139-145), as a multiple of pi.
Phi ==
    IF boundary_condition = BOUNDARY_FIXED \/ boundary_condition = BOUNDARY_MIXED
    THEN <<0, 1>>
    ELSE <<1, 2>>

\* One summand of lines 147-149, in units of 1/Scale^2.
Term(p, n, t) ==
    LET om == Omega(p)
    IN  IF om = NaN THEN NaN
        ELSE amplitude
             * Sin(RatAdd(NormalModePForMassN(p, n), Phi))
             * Cos(Radians((om * t * speed * DegUnits) \div Scale))

\* _position_for_mass_n_at_time_t (lines 138-152), when every mode's entry
\* exists.
PositionForMassNAtTimeT(n, t) ==
    Sum([i \in 1..Len(normal_modes) |-> Term(normal_modes[i], n, t)])

\* The modes _omega is called with before the first IndexError, if any.
RECURSIVE ModesRead(_)
ModesRead(modes) ==
    IF modes = <<>> \/ OmegaEntry(Head(modes)) = 0 THEN <<>>
    ELSE <<Head(modes)>> \o ModesRead(Tail(modes))

\* _build_frames (lines 85-98), when no mode raises.
BuildFrames ==
    LET X_0 == line.x
    IN  [f \in 1..number_of_frames |->
            [x |-> X_0,
             y |-> [i \in 1..Len(X_0) |-> PositionForMassNAtTimeT(i - 1, f - 1)]]]

\* --------------------------------------------------------------- actions
Init ==
    /\ pc = "new"
    /\ error = "none"
    /\ number_of_masses = None
    /\ normal_modes = None
    /\ boundary_condition = None
    /\ longitude = None
    /\ amplitude = None
    /\ number_of_frames = None
    /\ speed = None
    /\ separation = None
    /\ matrix = None
    /\ omega_squared = None
    /\ line = None
    /\ frames = None
    /\ omegaReads = {}
    /\ sqrtOperands = {}
    /\ lastFrame = -1

\* __init__ (lines 31-44) up to the call of _prepare.  Line 42 divides by
\* number_of_masses + 1.
Construct(N, modes, bc, lon, amp, nframes, spd) ==
    /\ pc = "new"
    /\ number_of_masses' = N
    /\ normal_modes' = modes
    /\ boundary_condition' = bc
    /\ longitude' = lon
    /\ amplitude' = amp
    /\ number_of_frames' = nframes
    /\ IF N + 1 = 0
       THEN /\ pc' = "failed"
            /\ error' = "ZeroDivisionError"
            /\ UNCHANGED <<separation, speed>>
       ELSE /\ pc' = "tridiagonal_matrix"
            /\ separation' = Rat(lon, N + 1)
            /\ speed' = spd
            /\ UNCHANGED error
    /\ UNCHANGED <<matrix, omega_squared, line, frames, omegaReads,
                   sqrtOperands, lastFrame>>

\* Line 47.  np.eye raises ValueError for a negative dimension.
TridiagonalMatrixStep ==
    /\ pc = "tridiagonal_matrix"
    /\ IF number_of_masses < 0
       THEN /\ pc' = "failed"
            /\ error' = "ValueError"
            /\ UNCHANGED matrix
       ELSE /\ pc' = "omega_squared"
            /\ matrix' = TridiagonalMatrix(number_of_masses)
            /\ UNCHANGED error
    /\ UNCHANGED <<number_of_masses, normal_modes, boundary_condition, longitude,
                   amplitude, number_of_frames, speed, separation, omega_squared,
                   line, frames, omegaReads, sqrtOperands, lastFrame>>

\* Line 48, _omega_squared (lines 62-65): eig, then sort.  On a 0 x 0 matrix
\* np.linalg.eig returns an empty array or raises LinAlgError, depending on
\* the numpy release.
OmegaSquaredStep ==
    /\ pc = "omega_squared"
    /\ \/ /\ \E w2 \in EigOutputs(matrix, number_of_masses) :
                omega_squared' = Sort(w2)
          /\ pc' = "build_beaded_string"
          /\ UNCHANGED error
       \/ /\ number_of_masses = 0
          /\ pc' = "failed"
          /\ error' = "LinAlgError"
          /\ UNCHANGED omega_squared
    /\ UNCHANGED <<number_of_masses, normal_modes, boundary_condition, longitude,
                   amplitude, number_of_frames, speed, separation, matrix,
                   line, frames, omegaReads, sqrtOperands, lastFrame>>

\* Line 49, _build_beaded_string (lines 67-77): the line holds (X, Y).
BuildBeadedStringStep ==
    /\ pc = "build_beaded_string"
    /\ line' = BeadsCoordinates
    /\ pc' = "build_frames"
    /\ UNCHANGED <<error, number_of_masses, normal_modes, boundary_condition,
                   longitude, amplitude, number_of_frames, speed, separation,
                   matrix, omega_squared, frames, omegaReads, sqrtOperands,
                   lastFrame>>

\* Line 50, _build_frames (lines 85-98).  The first position evaluated calls
\* _omega for each mode in turn; an index outside the array raises
\* IndexError.
BuildFramesStep ==
    /\ pc = "build_frames"
    /\ LET evaluated == number_of_frames > 0 /\ Len(line.x) > 0
           read == IF evaluated THEN ModesRead(normal_modes) ELSE <<>>
           raised == evaluated /\ Len(read) < Len(normal_modes)
       IN  /\ omegaReads' = {<<read[i], OmegaEntry(read[i])>> : i \in 1..Len(read)}
           /\ sqrtOperands' =
                  {omega_squared[OmegaEntry(read[i])] : i \in 1..Len(read)}
           /\ IF raised
              THEN /\ pc' = "failed"
                   /\ error' = "IndexError"
                   /\ UNCHANGED frames
              ELSE /\ pc' = "build_figure"
                   /\ frames' = BuildFrames
                   /\ UNCHANGED error
    /\ UNCHANGED <<number_of_masses, normal_modes, boundary_condition, longitude,
                   amplitude, number_of_frames, speed, separation, matrix,
                   omega_squared, line, lastFrame>>

\* Line 51, _build_figure (lines 100-109): the line is added to the axes;
\* no attribute modelled here changes.
BuildFigureStep ==
    /\ pc = "build_figure"
    /\ pc' = "ready"
    /\ UNCHANGED <<error, number_of_masses, normal_modes, boundary_condition,
                   longitude, amplitude, number_of_frames, speed, separation,
                   matrix, omega_squared, line, frames, omegaReads, sqrtOperands,
                   lastFrame>>

\* An update that writes the line's current data into the stored frame
\* before showing it.
UpdateOverwrites(frame_number) ==
    /\ pc = "ready"
    /\ frames' = [frames EXCEPT ![frame_number + 1] = line]
    /\ line' = frames'[frame_number + 1]
    /\ lastFrame' = frame_number
    /\ UNCHANGED <<pc, error, number_of_masses, normal_modes, boundary_condition,
                   longitude, amplitude, number_of_frames, speed, separation,
                   matrix, omega_squared, omegaReads, sqrtOperands>>

\* _update (lines 154-156), called by FuncAnimation with a frame number of
\* range(number_of_frames).
Update(frame_number) ==
    /\ pc = "ready"
    /\ line' = frames[frame_number + 1]
    /\ lastFrame' = frame_number
    /\ UNCHANGED <<pc, error, number_of_masses, normal_modes, boundary_condition,
                   longitude, amplitude, number_of_frames, speed, separation,
                   matrix, omega_squared, frames, omegaReads, sqrtOperands>>

ConstructStep ==
    \E N \in (-2)..MaxN, modes \in ModeLists, bc \in BoundaryValues,
       s \in Settings, nframes \in 0..MaxFrames :
        Construct(N, modes, bc, s[1], s[2], nframes, s[3])

UpdateStep ==
    /\ pc = "ready"
    /\ \E k \in 0..(number_of_frames - 1) : Update(k)

Next ==
    \/ ConstructStep
    \/ TridiagonalMatrixStep
    \/ OmegaSquaredStep
    \/ BuildBeadedStringStep
    \/ BuildFramesStep
    \/ BuildFigureStep
    \/ UpdateStep

Spec == Init /\ [][Next]_vars

\* ------------------------------------------- the solver as a pure function
\* _omega_squared's sort and _omega as functions of the array that
\* np.linalg.eig computed.  A computed eigenvalue is an exact eigenvalue of
\* a positive semidefinite matrix (here 0, 1 or 2*Scale units) plus a
\* rounding error of at most one unit, so an eigenvalue within rounding
\* error of zero may be computed as -1.
ComputedValues == {-1, 0, 1, 2 * Scale - 1, 2 * Scale, 2 * Scale + 1}

InitSolver ==
    /\ pc = "omega_squared"
    /\ error = "none"
    /\ number_of_masses \in 1..MaxN
    /\ normal_modes = None
    /\ boundary_condition = None
    /\ longitude = None
    /\ amplitude = None
    /\ number_of_frames = None
    /\ speed = None
    /\ separation = None
    /\ matrix = None
    /\ omega_squared = None
    /\ line = None
    /\ frames = None
    /\ omegaReads = {}
    /\ sqrtOperands = {}
    /\ lastFrame = -1

\* Lines 63-65 on a computed array w2.
SolverOmegaSquared ==
    /\ pc = "omega_squared"
    /\ \E w2 \in [1..number_of_masses -> ComputedValues] :
           omega_squared' = Sort(w2)
    /\ pc' = "solved"
    /\ UNCHANGED <<error, number_of_masses, normal_modes, boundary_condition,
                   longitude, amplitude, number_of_frames, speed, separation,
                   matrix, line, frames, omegaReads, sqrtOperands, lastFrame>>

\* Line 126 for a mode p of 1..N: the entry is handed to np.sqrt as it is.
SolverOmega ==
    /\ pc = "solved"
    /\ \E p \in 1..number_of_masses :
           /\ omegaReads' = omegaReads \cup {<<p, OmegaEntry(p)>>}
           /\ sqrtOperands' = sqrtOperands \cup {omega_squared[OmegaEntry(p)]}
    /\ UNCHANGED <<pc, error, number_of_masses, normal_modes, boundary_condition,
                   longitude, amplitude, number_of_frames, speed, separation,
                   matrix, omega_squared, line, frames, lastFrame>>

NextSolver == SolverOmegaSquared \/ SolverOmega

SpecSolver == InitSolver /\ [][NextSolver]_vars

\* ------------------------------------------------------------ properties
Valid == {BOUNDARY_FIXED, BOUNDARY_FREE, BOUNDARY_MIXED}

\* Positions at which the named attribute has been assigned.
MatrixBuilt ==
    \/ pc \in {"omega_squared", "build_beaded_string", "build_frames",
               "build_figure", "ready", "solved"}
    \/ pc = "failed" /\ error \in {"LinAlgError", "IndexError"}

SpectrumBuilt ==
    \/ pc \in {"build_beaded_string", "build_frames", "build_figure", "ready",
               "solved"}
    \/ pc = "failed" /\ error = "IndexError"

FramesBuilt == pc \in {"build_figure", "ready"}

\* C1: for every N >= 1 and every boundary condition the coupling matrix is
\* the N x N matrix with 2 on the diagonal, -1 next to it and 0 elsewhere
\* (hence symmetric); the boundary condition changes no entry.
C1_CouplingMatrix ==
    (MatrixBuilt /\ number_of_masses >= 1) =>
        /\ DOMAIN matrix = (1..number_of_masses) \X (1..number_of_masses)
        /\ \A i \in 1..number_of_masses, j \in 1..number_of_masses :
            /\ matrix[i, j] = (IF i = j THEN 2
                               ELSE IF Abs(i - j) = 1 THEN -1 ELSE 0)
            /\ matrix[i, j] = matrix[j, i]

\* The matrix of three masses has been built under the free boundary.
C1_Witness ==
    /\ pc = "ready"
    /\ number_of_masses = 3
    /\ boundary_condition = BOUNDARY_FREE
    /\ matrix[1, 1] = 2 /\ matrix[1, 2] = -1 /\ matrix[1, 3] = 0

\* C2: the argument is p*n*pi/(N+1) under Fixed and Free and
\* ((p-1)+0.5)*n*pi/(N+1) = (2p-1)*n*pi/(2(N+1)) under Mixed; the phase
\* offset is 0 under Fixed and Mixed and pi/2 under Free.  Rationals are
\* compared by cross-multiplication.
C2_ModeShape ==
    (pc \notin {"new", "failed"} /\ boundary_condition \in Valid) =>
        /\ \A i \in 1..Len(normal_modes), n \in 0..(number_of_masses + 1) :
            LET p == normal_modes[i]
                arg == NormalModePForMassN(p, n)
            IN  IF boundary_condition = BOUNDARY_MIXED
                THEN arg[1] * 2 * (number_of_masses + 1) = (2 * p - 1) * n * arg[2]
                ELSE arg[1] * (number_of_masses + 1) = p * n * arg[2]
        /\ IF boundary_condition = BOUNDARY_FREE
           THEN Phi[1] * 2 = Phi[2]
           ELSE Phi[1] = 0

\* Frames of three masses were evaluated under the mixed boundary for mode 2.
C2_Witness ==
    /\ pc = "ready"
    /\ boundary_condition = BOUNDARY_MIXED
    /\ number_of_masses = 3
    /\ normal_modes = <<2>>
    /\ number_of_frames = 2
    /\ NormalModePForMassN(2, 1) = <<3, 8>>

\* C3: under Fixed the displacement of the left wall (n = 0) is 0 in every
\* frame, for every N, mode list, amplitude and speed.
C3_LeftWallFixed ==
    (FramesBuilt /\ boundary_condition = BOUNDARY_FIXED) =>
        \A f \in 1..Len(frames) : frames[f].y[1] = 0

\* Two frames of a moving fixed string: some mass is displaced.
C3_Witness ==
    /\ pc = "ready"
    /\ boundary_condition = BOUNDARY_FIXED
    /\ normal_modes # <<>>
    /\ Len(frames) = 2
    /\ frames[2].y[1] = 0
    /\ frames[2].y[2] # 0

\* C4: with no selected mode, building the frames does not fail and every one
\* of the N+2 y-values of every frame is 0.
C4_EmptyModeSet ==
    (pc # "new" /\ normal_modes = <<>>) =>
        /\ error # "IndexError"
        /\ number_of_masses >= 1 => pc # "failed"
        /\ FramesBuilt =>
            /\ Len(frames) = number_of_frames
            /\ \A f \in 1..Len(frames) :
                /\ Len(frames[f].y) = number_of_masses + 2
                /\ \A i \in 1..(number_of_masses + 2) : frames[f].y[i] = 0

\* Two frames of three masses built from an empty mode list.
C4_Witness ==
    /\ pc = "ready"
    /\ normal_modes = <<>>
    /\ number_of_masses = 3
    /\ Len(frames) = 2
    /\ Len(frames[2].y) = 5

\* C5: the frame sequence has exactly number_of_frames snapshots, snapshot f
\* holding time f - 1; each has N+2 x-coordinates and N+2 y-values; in every
\* frame x(n) = -longitude/2 + n*longitude/(N+1), so x(0) = -longitude/2 and
\* x(N+1) = +longitude/2.
C5_FrameSequence ==
    FramesBuilt =>
        /\ Len(frames) = number_of_frames
        /\ \A f \in 1..Len(frames) :
            /\ Len(frames[f].x) = number_of_masses + 2
            /\ Len(frames[f].y) = number_of_masses + 2
            /\ \A n \in 0..(number_of_masses + 1) :
                /\ frames[f].x[n + 1][1] * 2 * (number_of_masses + 1)
                       = (2 * n - (number_of_masses + 1)) * longitude
                             * frames[f].x[n + 1][2]
                /\ frames[f].y[n + 1] = PositionForMassNAtTimeT(n, f - 1)
            /\ frames[f].x[1] = Rat(-longitude, 2)
            /\ frames[f].x[number_of_masses + 2] = Rat(longitude, 2)

\* Two frames of three masses on a string of length 2.
C5_Witness ==
    /\ pc = "ready"
    /\ number_of_masses = 3
    /\ longitude = 2
    /\ Len(frames) = 2
    /\ frames[2].x = <<<<-1, 1>>, <<-1, 2>>, <<0, 1>>, <<1, 2>>, <<1, 1>>>>
    /\ frames[1].y # frames[2].y

\* C6: construction with N < 1 fails at coupling-matrix construction; no
\* matrix, spectrum or frame sequence is produced for such N.
C6_InvalidMassCount ==
    (pc # "new" /\ number_of_masses < 1) => pc \in {"tridiagonal_matrix", "failed"}

\* C7: a boundary condition outside {Fixed, Free, Mixed} is rejected; it is
\* never evaluated as if it were a valid one and no frames are produced
\* (here: for a configuration whose mode indexes are all in 1..N, no frames
\* are built from evaluated mode shapes).
C7_InvalidBoundaryCondition ==
    (pc # "new" /\ boundary_condition \notin Valid) =>
        ~(/\ FramesBuilt
          /\ omegaReads # {}
          /\ \A r \in omegaReads : r[1] \in 1..number_of_masses)

C9_FramesImmutable ==
    [][pc = "ready" =>
          /\ frames' = frames
          /\ matrix' = matrix
          /\ omega_squared' = omega_squared
          /\ lastFrame' \in 0..(number_of_frames - 1)
          /\ line' = frames[lastFrame' + 1]]_vars

\* _update(1) has been called after another update; the two frames differ.
C9_Witness ==
    /\ pc = "ready"
    /\ lastFrame = 1
    /\ line = frames[2]
    /\ frames[1] # frames[2]

\* C10: the spectrum has exactly N values in ascending order, and _omega
\* reads entry p-1 of it (position p) only for 1 <= p <= N; a mode index
\* outside 1..N never reads another entry.
C10_ModeIndex ==
    SpectrumBuilt =>
        /\ Len(omega_squared) = number_of_masses
        /\ \A k \in 1..(Len(omega_squared) - 1) :
               omega_squared[k] <= omega_squared[k + 1]
        /\ \A r \in omegaReads :
               /\ 1 <= r[1] /\ r[1] <= number_of_masses
               /\ r[2] = r[1]

=============================================================================
